---- MODULE Spec2Model ----
(***************************************************************************)
(* The invitation-card page of src/src/App.vue as a state machine: the     *)
(* settings refs seeded from the page address, the two debounced actions   *)
(* (generateInvitationCard, saveSettings), the asynchronous render runs,   *)
(* and the font-stylesheet loader with its polling loop.                   *)
(*                                                                         *)
(* Strings are sequences of one-character strings, so that the address     *)
(* encoding, the JSON text of `coordinates`, parseFloat and the markup     *)
(* pattern are computed character by character.  Numbers are fixed-point   *)
(* integers counting hundredths (50 is 0.5).  Time advances in steps of    *)
(* one poll interval.                                                      *)
(***************************************************************************)
EXTENDS Integers, Sequences, FiniteSets, TLC

(***************************************************************************)
(* Characters and numbers                                                  *)
(***************************************************************************)
Digits == <<"0","1","2","3","4","5","6","7","8","9">>

IsDigit(c) == \E i \in 1..10 : Digits[i] = c

DigitVal(c) == (CHOOSE i \in 1..10 : Digits[i] = c) - 1

RECURSIVE NatToChars(_)
NatToChars(n) ==
  IF n < 10 THEN <<Digits[n + 1]>>
  ELSE NatToChars(n \div 10) \o <<Digits[(n % 10) + 1]>>

RECURSIVE CharsToNat(_, _)
CharsToNat(s, acc) ==
  IF s = <<>> THEN acc ELSE CharsToNat(Tail(s), acc * 10 + DigitVal(Head(s)))

RECURSIVE TakeDigits(_)
TakeDigits(s) ==
  IF s # <<>> /\ IsDigit(Head(s)) THEN <<Head(s)>> \o TakeDigits(Tail(s)) ELSE <<>>

Drop(s, n) == SubSeq(s, n + 1, Len(s))

RECURSIVE SkipWs(_)
SkipWs(s) == IF s # <<>> /\ Head(s) \in {" ", "\n"} THEN SkipWs(Tail(s)) ELSE s

StartsWith(s, p) == Len(s) >= Len(p) /\ SubSeq(s, 1, Len(p)) = p

\* The fraction digits of a decimal literal as hundredths ("5" is 50, "25" is 25).
FracHundredths(fd) ==
  IF Len(fd) = 1 THEN DigitVal(fd[1]) * 10
  ELSE DigitVal(fd[1]) * 10 + DigitVal(fd[2])

\* Number -> string of a JS number (hundredths): "0.5", "1", "-0.25".
NumToChars(n) ==
  LET a  == IF n < 0 THEN -n ELSE n
      ip == a \div 100
      fp == a % 100
  IN  (IF n < 0 THEN <<"-">> ELSE <<>>) \o NatToChars(ip) \o
      (IF fp = 0 THEN <<>>
       ELSE IF fp % 10 = 0 THEN <<".", Digits[(fp \div 10) + 1]>>
       ELSE <<".", Digits[(fp \div 10) + 1], Digits[(fp % 10) + 1]>>)

(***************************************************************************)
(* JS values that `coordinates` can hold, JSON.stringify and JSON.parse    *)
(***************************************************************************)
JNum(n)  == [t |-> "num",  n |-> n, items |-> <<>>]
JNull    == [t |-> "null", n |-> 0, items |-> <<>>]
JNaN     == [t |-> "nan",  n |-> 0, items |-> <<>>]
JBool(b) == [t |-> "bool", n |-> IF b THEN 1 ELSE 0, items |-> <<>>]
JArr(s)  == [t |-> "arr",  n |-> 0, items |-> s]
JUndef   == [t |-> "undefined", n |-> 0, items |-> <<>>]

Pair(x, y) == JArr(<<JNum(x), JNum(y)>>)

\* JS truthiness, as `||` tests it.
Truthy(v) ==
  CASE v.t = "num"  -> v.n # 0
    [] v.t = "bool" -> v.n = 1
    [] v.t = "arr"  -> TRUE
    [] OTHER        -> FALSE

RECURSIVE JSONStringify(_), StringifyItems(_)
JSONStringify(v) ==
  CASE v.t = "num"  -> NumToChars(v.n)
    [] v.t = "bool" -> IF v.n = 1 THEN <<"t","r","u","e">> ELSE <<"f","a","l","s","e">>
    [] v.t = "arr"  -> <<"[">> \o StringifyItems(v.items) \o <<"]">>
    [] OTHER        -> <<"n","u","l","l">>
StringifyItems(items) ==
  IF items = <<>> THEN <<>>
  ELSE IF Len(items) = 1 THEN JSONStringify(items[1])
  ELSE JSONStringify(items[1]) \o <<",">> \o StringifyItems(Tail(items))

JFail == [ok |-> FALSE, v |-> JNull, rest |-> <<>>]
JOk(v, rest) == [ok |-> TRUE, v |-> v, rest |-> rest]

\* A JSON number: -? (0 | [1-9][0-9]*) (. [0-9]+)?   (no exponent; at most
\* two fraction digits are representable).
JParseNumber(s) ==
  LET neg  == s # <<>> /\ Head(s) = "-"
      s1   == IF neg THEN Tail(s) ELSE s
      id   == TakeDigits(s1)
      s2   == Drop(s1, Len(id))
      dot  == s2 # <<>> /\ Head(s2) = "."
      fd   == IF dot THEN TakeDigits(Tail(s2)) ELSE <<>>
      s3   == IF dot THEN Drop(s2, 1 + Len(fd)) ELSE s2
      mag  == CharsToNat(id, 0) * 100 + (IF dot THEN FracHundredths(fd) ELSE 0)
  IN  IF id = <<>> \/ (Len(id) > 1 /\ id[1] = "0") \/ (dot /\ fd = <<>>)
      THEN JFail
      ELSE JOk(JNum(IF neg THEN -mag ELSE mag), s3)

RECURSIVE JParseValue(_), JParseItems(_, _)
JParseValue(s0) ==
  LET s == SkipWs(s0)
  IN  IF s = <<>> THEN JFail
      ELSE IF Head(s) = "[" THEN
        (LET r == SkipWs(Tail(s))
         IN  IF r # <<>> /\ Head(r) = "]" THEN JOk(JArr(<<>>), Tail(r))
             ELSE JParseItems(r, <<>>))
      ELSE IF StartsWith(s, <<"n","u","l","l">>)  THEN JOk(JNull, Drop(s, 4))
      ELSE IF StartsWith(s, <<"t","r","u","e">>)  THEN JOk(JBool(TRUE), Drop(s, 4))
      ELSE IF StartsWith(s, <<"f","a","l","s","e">>) THEN JOk(JBool(FALSE), Drop(s, 5))
      ELSE IF Head(s) = "-" \/ IsDigit(Head(s)) THEN JParseNumber(s)
      ELSE JFail
JParseItems(s, acc) ==
  LET r == JParseValue(s)
      t == SkipWs(r.rest)
  IN  IF ~r.ok \/ t = <<>> THEN JFail
      ELSE IF Head(t) = "," THEN JParseItems(Tail(t), Append(acc, r.v))
      ELSE IF Head(t) = "]" THEN JOk(JArr(Append(acc, r.v)), Tail(t))
      ELSE JFail

\* JSON.parse: ok = FALSE stands for the SyntaxError it throws.
JSONParse(s) ==
  LET r == JParseValue(s)
  IN  IF r.ok /\ SkipWs(r.rest) = <<>> THEN [ok |-> TRUE, v |-> r.v]
      ELSE [ok |-> FALSE, v |-> JNull]

(***************************************************************************)
(* The query string of the page address (URL.searchParams)                 *)
(***************************************************************************)
\* Characters the form-urlencoded serializer writes as %XX.  Space is
\* written "+"; letters, digits and * - . _ are written as they are.
PercentCodes ==
  { <<"\"", <<"2","2">>>>, <<"#", <<"2","3">>>>, <<"%", <<"2","5">>>>, <<"&", <<"2","6">>>>,
    <<"+", <<"2","B">>>>, <<",", <<"2","C">>>>, <<"/", <<"2","F">>>>, <<":", <<"3","A">>>>,
    <<"<", <<"3","C">>>>, <<"=", <<"3","D">>>>, <<">", <<"3","E">>>>, <<"[", <<"5","B">>>>,
    <<"]", <<"5","D">>>>, <<"\n", <<"0","A">>>> }

PercentChars == { p[1] : p \in PercentCodes }

EncodeChar(c) ==
  IF c = " " THEN <<"+">>
  ELSE IF c \in PercentChars
       THEN <<"%">> \o (CHOOSE p \in PercentCodes : p[1] = c)[2]
       ELSE <<c>>

RECURSIVE EncodeFrom(_, _)
EncodeFrom(s, i) ==
  IF i > Len(s) THEN <<>> ELSE EncodeChar(s[i]) \o EncodeFrom(s, i + 1)

EncodeComponent(s) == EncodeFrom(s, 1)

\* s[i..to] decoded: "+" is a space, %XX the character of that code.
RECURSIVE DecodeFrom(_, _, _)
DecodeFrom(s, i, to) ==
  IF i > to THEN <<>>
  ELSE IF s[i] = "+" THEN <<" ">> \o DecodeFrom(s, i + 1, to)
  ELSE IF s[i] = "%" /\ i + 2 <= to
          /\ \E p \in PercentCodes : p[2] = <<s[i + 1], s[i + 2]>>
       THEN <<(CHOOSE p \in PercentCodes : p[2] = <<s[i + 1], s[i + 2]>>)[1]>>
            \o DecodeFrom(s, i + 3, to)
  ELSE <<s[i]>> \o DecodeFrom(s, i + 1, to)

DecodeComponent(s) == DecodeFrom(s, 1, Len(s))

\* Index of the first c in s, or 0.
RECURSIVE IndexOf(_, _, _)
IndexOf(s, c, i) ==
  IF i > Len(s) THEN 0 ELSE IF s[i] = c THEN i ELSE IndexOf(s, c, i + 1)

\* Index of the first c in s[i..to], or 0.
RECURSIVE IndexIn(_, _, _, _)
IndexIn(s, c, i, to) ==
  IF i > to THEN 0 ELSE IF s[i] = c THEN i ELSE IndexIn(s, c, i + 1, to)

\* The pair written in q[from..to]: the name runs to the first "=".
ParsePair(q, from, to) ==
  LET e == IndexIn(q, "=", from, to)
  IN  IF e = 0 THEN [k |-> DecodeFrom(q, from, to), v |-> <<>>]
      ELSE [k |-> DecodeFrom(q, from, e - 1), v |-> DecodeFrom(q, e + 1, to)]

\* The pairs of q[from..]: the segments between "&", the empty ones skipped.
RECURSIVE ParseQueryFrom(_, _)
ParseQueryFrom(q, from) ==
  IF from > Len(q) THEN <<>>
  ELSE LET a  == IndexIn(q, "&", from, Len(q))
           to == IF a = 0 THEN Len(q) ELSE a - 1
       IN  (IF to < from THEN <<>> ELSE <<ParsePair(q, from, to)>>)
           \o ParseQueryFrom(q, to + 2)

\* new URL(href).searchParams: the list of name-value pairs of the query.
ParseQuery(q) == ParseQueryFrom(q, 1)

\* url.toString(): the pairs written back as a query string.
RECURSIVE SerializeQuery(_)
SerializeQuery(pairs) ==
  IF pairs = <<>> THEN <<>>
  ELSE EncodeComponent(pairs[1].k) \o <<"=">> \o EncodeComponent(pairs[1].v)
       \o (IF Len(pairs) = 1 THEN <<>> ELSE <<"&">> \o SerializeQuery(Tail(pairs)))

None == [some |-> FALSE, s |-> <<>>]
Some(s) == [some |-> TRUE, s |-> s]

\* searchParams.get(key): the first value of that name, or null.
SearchGet(pairs, key) ==
  IF \E i \in 1..Len(pairs) : pairs[i].k = key
  THEN Some(pairs[CHOOSE i \in 1..Len(pairs) :
                    pairs[i].k = key /\ \A j \in 1..(i - 1) : pairs[j].k # key].v)
  ELSE None

RECURSIVE RemoveKey(_, _)
RemoveKey(pairs, key) ==
  IF pairs = <<>> THEN <<>>
  ELSE (IF pairs[1].k = key THEN <<>> ELSE <<pairs[1]>>) \o RemoveKey(Tail(pairs), key)

\* searchParams.set(key, v): the first pair of that name gets the value and
\* the others of that name go; a new name is appended.
SearchSet(pairs, key, v) ==
  IF \E i \in 1..Len(pairs) : pairs[i].k = key
  THEN LET f == CHOOSE i \in 1..Len(pairs) :
                  pairs[i].k = key /\ \A j \in 1..(i - 1) : pairs[j].k # key
       IN  SubSeq(pairs, 1, f - 1) \o <<[k |-> key, v |-> v]>>
           \o RemoveKey(Drop(pairs, f), key)
  ELSE Append(pairs, [k |-> key, v |-> v])

K_name            == <<"n","a","m","e">>
K_fontLoadingCode == <<"f","o","n","t","L","o","a","d","i","n","g","C","o","d","e">>
K_fontFamily      == <<"f","o","n","t","F","a","m","i","l","y">>
K_isItalic        == <<"i","s","I","t","a","l","i","c">>
K_isBold          == <<"i","s","B","o","l","d">>
K_fontColor       == <<"f","o","n","t","C","o","l","o","r">>
K_fontSize        == <<"f","o","n","t","S","i","z","e">>
K_coordinates     == <<"c","o","o","r","d","i","n","a","t","e","s">>

\* `!value` of line 13 and line 23: null or the empty string.
Falsy(value) == ~value.some \/ value.s = <<>>

\* loadStringParam and loadObjectParam, lines 11-28; u is the URL object of
\* line 10, that is the pairs of its searchParams.
loadStringParam(u, key) ==
  LET value == SearchGet(u, key)
  IN  IF Falsy(value) THEN None ELSE value

\* thrown = TRUE stands for the SyntaxError of JSON.parse, which nothing catches.
loadObjectParam(u, key) ==
  LET value == SearchGet(u, key)
      parsedValue == JSONParse(value.s)
  IN  IF Falsy(value) THEN [thrown |-> FALSE, v |-> JNull]
      ELSE IF parsedValue.ok THEN [thrown |-> FALSE, v |-> parsedValue.v]
      ELSE [thrown |-> TRUE, v |-> JNull]

\* `a || b` on an optional string.
OrString(a, b) == IF a.some /\ a.s # <<>> THEN a.s ELSE b

\* `a || b` on a JS value.
OrValue(a, b) == IF Truthy(a) THEN a ELSE b

DefaultName        == <<"T","a","n"," ","A","h"," ","K","o","w">>
DefaultFontFamily  == <<"s","a","n","s","-","s","e","r","i","f">>
DefaultFontColor   == <<"#","0","0","0","0","0","0">>
DefaultFontSize    == <<"1","4">>
DefaultCoordinates == Pair(50, 50)

(***************************************************************************)
(* parseFloat and the markup pattern                                       *)
(***************************************************************************)
\* parseFloat(s): the longest decimal prefix after leading white space, or NaN.
parseFloat(s0) ==
  LET s   == SkipWs(s0)
      neg == s # <<>> /\ Head(s) = "-"
      s1  == IF s # <<>> /\ Head(s) \in {"-", "+"} THEN Tail(s) ELSE s
      id  == TakeDigits(s1)
      s2  == Drop(s1, Len(id))
      fd  == IF s2 # <<>> /\ Head(s2) = "." THEN TakeDigits(Tail(s2)) ELSE <<>>
      mag == CharsToNat(id, 0) * 100 + (IF fd = <<>> THEN 0 ELSE FracHundredths(fd))
  IN  IF id = <<>> /\ fd = <<>> THEN JNaN
      ELSE JNum(IF neg THEN -mag ELSE mag)

LinkPrefix == <<"<","l","i","n","k"," ","h","r","e","f","=","\"">>

\* Index of the last c in s[from..to], or 0.
RECURSIVE LastIndexIn(_, _, _, _)
LastIndexIn(s, c, from, to) ==
  IF to < from THEN 0 ELSE IF s[to] = c THEN to ELSE LastIndexIn(s, c, from, to - 1)

\* code.match(/<link href="(.*)"/)?.[1]: at the leftmost place where the
\* prefix stands and a closing quote follows on the same line, the greedy
\* group runs to the LAST quote of that line.
RECURSIVE MatchLinkHref(_, _)
MatchLinkHref(code, i) ==
  IF i + Len(LinkPrefix) - 1 > Len(code) THEN None
  ELSE LET from == i + Len(LinkPrefix)
           nl   == IndexOf(code, "\n", from)
           to   == IF nl = 0 THEN Len(code) ELSE nl - 1
           q    == LastIndexIn(code, "\"", from, to)
       IN  IF SubSeq(code, i, from - 1) = LinkPrefix /\ q # 0
           THEN Some(SubSeq(code, from, q - 1))
           ELSE MatchLinkHref(code, i + 1)

(***************************************************************************)
(* Program constants and the bounds of the model                           *)
(***************************************************************************)
DebounceWaitMs == 1000
PollIntervalMs == 500
LIVES          == 5
SizeReference  == 600

\* One step of time is one poll interval; the debounce wait in steps.
Wait == DebounceWaitMs \div PollIntervalMs

MaxEdits     == 2   \* user edits of settings, and 'loadingdone' events of document.fonts
MaxFontFaces == 1   \* font faces the browser adds to document.fonts
MaxReloads   == 1   \* page reloads

\* Values the user types or picks.
NameInputs      == { <<"J","&","D">> }
FontSizeInputs  == { <<"3","0">> }
FontColorInputs == { <<>> }
ClickOffsets    == { <<25, 10>> }               \* offsetX/clientWidth, offsetY/clientHeight
Files           == { "img1", "img2" }           \* data URLs of the files picked

\* Natural dimensions of the picked images.
NaturalSize(src) ==
  IF src = "img1" THEN [width |-> 1000, height |-> 800]
  ELSE [width |-> 500, height |-> 400]

\* Markup pasted as font loading code.
CodeA     == <<"<","l","i","n","k"," ","h","r","e","f","=","\"","A","\"",">">>
CodeARel  == <<"<","l","i","n","k"," ","h","r","e","f","=","\"","A","\""," ","r","e","l","=","\"","s","\"",">">>
CodeNoRef == <<"<","l","i","n","k"," ","r","e","l","=","\"","s","\""," ","h","r","e","f","=","\"","A","\"",">">>
CodeEmpty == <<"<","l","i","n","k"," ","h","r","e","f","=","\"","\"",">">>
CodeInputs == { CodeA, CodeARel, CodeEmpty }

FamilyLato   == <<"L","a","t","o">>
FamilyRoboto == <<"R","o","b","o","t","o">>

\* The family names in lexicographic order, as sortBy orders them.
FamilyOrder == <<FamilyLato, FamilyRoboto>>

\* Font faces the stylesheet A declares; any other URL declares none.
FacesOf(href) ==
  IF href = <<"A">>
  THEN { [family |-> FamilyRoboto, weight |-> 400],
         [family |-> FamilyRoboto, weight |-> 700],
         [family |-> FamilyLato, weight |-> 400] }
  ELSE {}

\* Page addresses (query strings) the page is opened with.
BootQueries ==
  { <<>>,
    K_coordinates \o <<"=","a","b","c">>,
    K_name \o <<"=","&">> \o K_fontColor \o <<"=","%","2","3","f","0","0","&">>
      \o K_fontSize \o <<"=","a","b","c","&">>
      \o K_coordinates \o <<"=","[","2",",","3","]","&">>
      \o K_fontLoadingCode \o <<"=">> \o EncodeComponent(CodeNoRef) }

FontLoadingCodeError == "Could not find the stylesheet URL in font loading code"

(***************************************************************************)
(* State                                                                   *)
(***************************************************************************)
VARIABLES
  phase,               \* "boot" before script setup, "ready" after it, "failed" when it threw
  url,                 \* window.location: the searchParams of its href.  The href is
                       \* a string; each write of it is parsed back into this list
  name, fontLoadingCode, fontFamily, isItalic, isBold, fontColor, fontSize,
  coordinates, imageSize, rawImageDataURL, imageDataURL,
  availableFontFaces, errors,
  loadedFonts,         \* keys of the Map of requested stylesheet URLs
  headLinks,           \* hrefs of the LINK elements appended to document.head, in order
  documentFonts,       \* document.fonts
  genTimer, saveTimer, \* pending timers of the two debounced functions
  renders,             \* runs of the debounced render function suspended at an await
  pollers,             \* polling loops of handleFontLoadingCode suspended at their wait
  edits, fontEvents, reloads,   \* how much of each bound is used
  obs                  \* history: what happened since the last change of a watched setting

settingVars == <<name, fontLoadingCode, fontFamily, isItalic, isBold, fontColor,
                 fontSize, coordinates>>
fontVars    == <<availableFontFaces, errors, loadedFonts, headLinks, documentFonts, pollers>>
renderVars  == <<imageSize, rawImageDataURL, imageDataURL, renders>>
timerVars   == <<genTimer, saveTimer>>
boundVars   == <<edits, fontEvents, reloads>>
vars == <<phase, url, settingVars, fontVars, renderVars, timerVars, boundVars, obs>>

TimerIdle == [armed |-> FALSE, left |-> 0]
Armed(n)  == [armed |-> TRUE, left |-> n]
Due(t)    == t.armed /\ t.left = 0

NoCard == [src |-> "", width |-> 0, height |-> 0, lx |-> JNaN, ly |-> JNaN,
           italic |-> FALSE, bold |-> FALSE, effectiveSize |-> JNaN,
           family |-> <<>>, fillStyle |-> <<>>, text |-> <<>>]

Settings ==
  [name |-> name, fontLoadingCode |-> fontLoadingCode, fontFamily |-> fontFamily,
   isItalic |-> isItalic, isBold |-> isBold, fontColor |-> fontColor,
   fontSize |-> fontSize, coordinates |-> coordinates]

Min(a, b) == IF a < b THEN a ELSE b

ObsInit ==
  [ quiet      |-> Wait,    \* steps of time since the last watched change (capped at Wait)
    quietAll   |-> Wait,    \* the same, counting edits of fontLoadingCode too
    edited     |-> FALSE,   \* some setting was edited since the page loaded
    genRuns    |-> 0,       \* invocations of the render function since the last watched change
    saveRuns   |-> 0,       \* invocations of the persist function since then
    extra      |-> FALSE,   \* the render function was triggered since then by something else
    burstLen   |-> 0,       \* watched changes since the persist timer was last idle (capped)
    handled    |-> "none",  \* how the last call of handleFontLoadingCode ended
    pubFresh   |-> FALSE,   \* the card shown was drawn by a run invoked after the last change
    pubSnap    |-> [name |-> <<>>, fontLoadingCode |-> <<>>, fontFamily |-> <<>>,
                    isItalic |-> <<>>, isBold |-> <<>>, fontColor |-> <<>>,
                    fontSize |-> <<>>, coordinates |-> JUndef] ]
                            \* the settings at the moment the run that drew it was invoked

Init ==
  /\ phase = "boot"
  /\ url \in { ParseQuery(q) : q \in BootQueries }
  /\ name = <<>> /\ fontLoadingCode = <<>> /\ fontFamily = <<>> /\ isItalic = <<>>
  /\ isBold = <<>> /\ fontColor = <<>> /\ fontSize = <<>> /\ coordinates = JUndef
  /\ imageSize = [width |-> 500, height |-> 500]
  /\ rawImageDataURL = "" /\ imageDataURL = NoCard
  /\ availableFontFaces = <<>> /\ errors = [fontLoadingCode |-> ""]
  /\ loadedFonts = {} /\ headLinks = <<>> /\ documentFonts = {}
  /\ genTimer = TimerIdle /\ saveTimer = TimerIdle
  /\ renders = <<>> /\ pollers = {}
  /\ edits = 0 /\ fontEvents = 0 /\ reloads = 0
  /\ obs = ObsInit

(***************************************************************************)
(* handleFontLoadingCode (lines 138-180)                                   *)
(***************************************************************************)
\* A check that takes an empty group for a URL.
NoUrlMatchOnly(u) == ~u.some

\* `!url` of line 143: no match, or an empty group.
NoUrl(u) == ~u.some \/ u.s = <<>>

\* A handler without the check of line 148.
NeverRequested(loaded, u) == FALSE

\* loadedFonts.has(url), line 148.
AlreadyRequested(loaded, u) == u \in loaded

\* A loop body that counts down on a new size too.
PollBodyNoReset(p, sz) ==
  IF sz # p.lastSize
  THEN [p EXCEPT !.livesRemaining = @ - 1, !.lastSize = sz, !.since = 0]
  ELSE [p EXCEPT !.livesRemaining = @ - 1]

\* A loop body that forgets to record the size it saw.
PollBodyKeepsSize(p, sz) ==
  IF sz # p.lastSize
  THEN [p EXCEPT !.livesRemaining = LIVES, !.since = 0]
  ELSE [p EXCEPT !.livesRemaining = @ - 1]

\* One pass of the loop body, lines 166-172, on the observed size sz.
PollBody(p, sz) ==
  IF sz # p.lastSize
  THEN [p EXCEPT !.livesRemaining = LIVES, !.lastSize = sz, !.since = 0]
  ELSE [p EXCEPT !.livesRemaining = @ - 1]

\* The wait of line 173: the loop sleeps one poll interval.
Sleep(p) == [p EXCEPT !.wake = 1]

\* A handler that takes the message away when it finds a URL.
handleFontLoadingCodeClearing(code, st, sz) ==
  LET u == MatchLinkHref(code, 1)
  IN  IF NoUrl(u)
      THEN [st EXCEPT !.errors = [@ EXCEPT !.fontLoadingCode = FontLoadingCodeError]]
      ELSE IF AlreadyRequested(st.loadedFonts, u.s)
      THEN [st EXCEPT !.errors = [@ EXCEPT !.fontLoadingCode = ""]]
      ELSE [st EXCEPT
              !.errors = [@ EXCEPT !.fontLoadingCode = ""],
              !.loadedFonts = @ \cup {u.s},
              !.headLinks = Append(@, u.s),
              !.pollers = @ \cup
                 { Sleep(PollBody([url |-> u.s, lastSize |-> -1, livesRemaining |-> LIVES,
                                   wake |-> 0, since |-> 0], sz)) }]

\* The synchronous part of the handler, up to its first wait.  st holds
\* errors, loadedFonts, headLinks and pollers; sz is document.fonts.size.
\* `since` counts the steps of time since the poll that last saw a new size.
handleFontLoadingCode(code, st, sz) ==
  LET u == MatchLinkHref(code, 1)
  IN  IF NoUrl(u)
      THEN [st EXCEPT !.errors = [@ EXCEPT !.fontLoadingCode = FontLoadingCodeError]]
      ELSE IF AlreadyRequested(st.loadedFonts, u.s) THEN st
      ELSE [st EXCEPT
              !.loadedFonts = @ \cup {u.s},
              !.headLinks = Append(@, u.s),
              !.pollers = @ \cup
                 { Sleep(PollBody([url |-> u.s, lastSize |-> -1, livesRemaining |-> LIVES,
                                   wake |-> 0, since |-> 0], sz)) }]

\* How a call of the handler on code ends with loaded the requested URLs.
Handled(code, loaded) ==
  LET u == MatchLinkHref(code, 1)
  IN  IF NoUrl(u) THEN "error"
      ELSE IF AlreadyRequested(loaded, u.s) THEN "repeat"
      ELSE "new"

FontState == [errors |-> errors, loadedFonts |-> loadedFonts,
              headLinks |-> headLinks, pollers |-> pollers]

SetFontState(st) ==
  /\ errors' = st.errors
  /\ loadedFonts' = st.loadedFonts
  /\ headLinks' = st.headLinks
  /\ pollers' = st.pollers

\* sortBy(uniq(fonts)) of line 179.
SortUniq(families) == SelectSeq(FamilyOrder, LAMBDA f : f \in families)

Range(s) == { s[i] : i \in DOMAIN s }

(***************************************************************************)
(* Script setup (lines 10-45 and 182-186): runs when the page loads        *)
(***************************************************************************)
SetSettings(s) ==
  /\ name' = s.name
  /\ fontLoadingCode' = s.fontLoadingCode
  /\ fontFamily' = s.fontFamily
  /\ isItalic' = s.isItalic
  /\ isBold' = s.isBold
  /\ fontColor' = s.fontColor
  /\ fontSize' = s.fontSize
  /\ coordinates' = s.coordinates

\* The refs of lines 30-37 seeded from currentUrl (line 10); `thrown` when the
\* JSON.parse of line 25 threw.
LoadedSettings(u) ==
  LET c == loadObjectParam(u, K_coordinates)
  IN  [name            |-> OrString(loadStringParam(u, K_name), DefaultName),
       fontLoadingCode |-> OrString(loadStringParam(u, K_fontLoadingCode), <<>>),
       fontFamily      |-> OrString(loadStringParam(u, K_fontFamily), DefaultFontFamily),
       isItalic        |-> OrString(loadStringParam(u, K_isItalic), <<>>),
       isBold          |-> OrString(loadStringParam(u, K_isBold), <<>>),
       fontColor       |-> OrString(loadStringParam(u, K_fontColor), DefaultFontColor),
       fontSize        |-> OrString(loadStringParam(u, K_fontSize), DefaultFontSize),
       coordinates     |-> IF c.thrown THEN JUndef ELSE OrValue(c.v, DefaultCoordinates),
       thrown          |-> c.thrown]

\* A setup that calls the handler whatever the code is.
CallsAtStartupAlways(code) == TRUE

\* `if (fontLoadingCode.value)` of line 182.
CallsAtStartup(code) == code # <<>>

\* The whole setup.  When JSON.parse throws at line 37 nothing after it runs:
\* `coordinates` is never created and the page is not mounted.
Setup ==
  LET s   == LoadedSettings(url)
      st0 == [errors |-> [fontLoadingCode |-> ""], loadedFonts |-> {},
              headLinks |-> <<>>, pollers |-> {}]
  IN  /\ phase' = IF s.thrown THEN "failed" ELSE "ready"
      /\ SetSettings(s)
      /\ imageSize' = [width |-> 500, height |-> 500]
      /\ rawImageDataURL' = "" /\ imageDataURL' = NoCard
      /\ availableFontFaces' = <<>>
      /\ SetFontState(IF ~s.thrown /\ CallsAtStartup(s.fontLoadingCode)
                      THEN handleFontLoadingCode(s.fontLoadingCode, st0, 0)
                      ELSE st0)
      /\ documentFonts' = {}
      /\ genTimer' = TimerIdle /\ saveTimer' = TimerIdle
      /\ renders' = <<>>
      /\ obs' = IF ~s.thrown /\ CallsAtStartup(s.fontLoadingCode)
                THEN [ObsInit EXCEPT !.handled = Handled(s.fontLoadingCode, {})]
                ELSE ObsInit
      /\ UNCHANGED url

Startup ==
  /\ phase = "boot"
  /\ Setup
  /\ UNCHANGED boundVars

\* The user reloads the page: a new document runs the setup on the address
\* the last saveSettings left.
Reload ==
  /\ phase = "ready"
  /\ reloads < MaxReloads
  /\ Setup
  /\ reloads' = reloads + 1
  /\ UNCHANGED <<edits, fontEvents>>

(***************************************************************************)
(* The debounced functions and the watcher (lines 71, 105-134)             *)
(***************************************************************************)
\* A debounce that keeps the deadline of a pending timer.
DebouncedNoRestart(timer) == IF timer.armed THEN timer ELSE Armed(Wait)

\* A call of a lodash-debounced function: the wait starts again.
Debounced(timer) == Armed(Wait)

Stale(rs) == [i \in DOMAIN rs |-> [rs[i] EXCEPT !.fresh = FALSE]]

ObsChanged ==
  [obs EXCEPT !.quiet = 0, !.quietAll = 0, !.edited = TRUE, !.genRuns = 0, !.saveRuns = 0,
              !.extra = FALSE, !.pubFresh = FALSE,
              !.burstLen = IF saveTimer.armed THEN Min(@ + 1, 2) ELSE 1]

\* The watcher callback, lines 131-134: both debounced functions are called.
WatchFired ==
  /\ genTimer' = Debounced(genTimer)
  /\ saveTimer' = Debounced(saveTimer)
  /\ obs' = ObsChanged

\* An edit of one watched setting, s being the settings after it.
EditWatched(s) ==
  /\ phase = "ready"
  /\ edits < MaxEdits
  /\ edits' = edits + 1
  /\ SetSettings(s)
  /\ WatchFired
  /\ renders' = Stale(renders)
  /\ UNCHANGED <<phase, url, fontVars, imageSize, rawImageDataURL, imageDataURL,
                 fontEvents, reloads>>

\* v-model of line 238.
SetName(v) == v # name /\ EditWatched([Settings EXCEPT !.name = v])

\* The select of line 212: the empty option or one of the published families.
SetFontFamily(v) ==
  /\ v \in {<<>>} \cup Range(availableFontFaces)
  /\ v # fontFamily
  /\ EditWatched([Settings EXCEPT !.fontFamily = v])

\* The checkboxes of lines 218 and 223 show !!isBold and !!isItalic; a click flips them.
SetBold == EditWatched([Settings EXCEPT !.isBold = IF isBold # <<>> THEN <<>> ELSE <<"1">>])

SetItalic == EditWatched([Settings EXCEPT !.isItalic = IF isItalic # <<>> THEN <<>> ELSE <<"1">>])

\* Line 229 and the v-model of line 233.
SetFontSize(v) == v # fontSize /\ EditWatched([Settings EXCEPT !.fontSize = v])

SetFontColor(v) == v # fontColor /\ EditWatched([Settings EXCEPT !.fontColor = v])

\* handleUpdatePosition, lines 188-192: the preview image exists only once a
\* card is shown (v-if of line 243); the new array always fires the watcher.
handleUpdatePosition(c) ==
  /\ imageDataURL # NoCard
  /\ EditWatched([Settings EXCEPT !.coordinates = Pair(c[1], c[2])])

\* updatePreview, lines 47-69, from the moment the file's read completes:
\* the ref is set (the watcher fires if it changed) and the render function is called.
updatePreview(file) ==
  /\ phase = "ready"
  /\ edits < MaxEdits
  /\ edits' = edits + 1
  /\ rawImageDataURL' = file
  /\ genTimer' = Debounced(genTimer)
  /\ IF file # rawImageDataURL
     THEN /\ saveTimer' = Debounced(saveTimer)
          /\ obs' = ObsChanged
          /\ renders' = Stale(renders)
     ELSE /\ obs' = [obs EXCEPT !.extra = TRUE]
          /\ UNCHANGED <<saveTimer, renders>>
  /\ UNCHANGED <<phase, url, settingVars, fontVars, imageSize, imageDataURL,
                 fontEvents, reloads>>

\* v-model of the textarea, line 206: fontLoadingCode is no source of the watcher.
InputFontLoadingCode(v) ==
  /\ phase = "ready"
  /\ edits < MaxEdits
  /\ v # fontLoadingCode
  /\ edits' = edits + 1
  /\ SetSettings([Settings EXCEPT !.fontLoadingCode = v])
  /\ obs' = [obs EXCEPT !.quietAll = 0, !.edited = TRUE]
  /\ UNCHANGED <<phase, url, fontVars, renderVars, timerVars, fontEvents, reloads>>

\* The textarea's change event, line 206.
ChangeFontLoadingCode ==
  /\ phase = "ready"
  /\ SetFontState(handleFontLoadingCode(fontLoadingCode, FontState, Cardinality(documentFonts)))
  /\ obs' = [obs EXCEPT !.handled = Handled(fontLoadingCode, loadedFonts)]
  /\ UNCHANGED <<phase, url, settingVars, availableFontFaces, documentFonts, renderVars,
                 timerVars, boundVars>>

\* An image element that fires 'load' whatever its src is.
LoadsAlways(src) == TRUE

\* The image element fires 'load' (line 77) once a source is decoded; with the
\* empty src of a page on which no file was picked it never does.
Loads(src) == src # ""

\* generateInvitationCard's timer fires: the async function starts and runs to
\* its first await (lines 72-83), the image element holding the source read now.
\* `snap` remembers the settings at this moment, `fresh` that no watched
\* setting changed since.  An image element with an empty src never fires
\* 'load', so such a run stays at line 83 for ever and is not kept.
FireGenerate ==
  /\ phase = "ready"
  /\ Due(genTimer)
  /\ genTimer' = TimerIdle
  /\ renders' = IF ~Loads(rawImageDataURL) THEN renders
                ELSE Append(renders, [imageEle |-> rawImageDataURL, pc |-> "load",
                                      fresh |-> TRUE, snap |-> Settings])
  /\ obs' = [obs EXCEPT !.genRuns = Min(@ + 1, 2)]
  /\ UNCHANGED <<phase, url, settingVars, fontVars, imageSize, rawImageDataURL,
                 imageDataURL, saveTimer, boundVars>>

\* The image's load event (lines 77-83): the shared imageSize is written and
\* the run yields for one tick (line 86).
ImageLoad(i) ==
  /\ phase = "ready"
  /\ renders[i].pc = "load"
  /\ imageSize' = NaturalSize(renders[i].imageEle)
  /\ renders' = [renders EXCEPT ![i].pc = "tick"]
  /\ UNCHANGED <<phase, url, settingVars, fontVars, rawImageDataURL, imageDataURL,
                 timerVars, boundVars, obs>>

\* v[i] of a JS value.
Index(v, i) == IF v.t = "arr" /\ i <= Len(v.items) THEN v.items[i] ELSE JUndef

\* Number(v), as `*` converts its operand.
ToNumber(v) ==
  CASE v.t = "num"  -> v
    [] v.t = "null" -> JNum(0)
    [] v.t = "bool" -> JNum(v.n * 100)
    [] v.t = "arr"  ->
         IF v.items = <<>> THEN JNum(0)
         ELSE IF Len(v.items) = 1 /\ v.items[1].t = "num" THEN v.items[1]
         ELSE IF Len(v.items) = 1 /\ v.items[1].t \in {"null", "undefined"} THEN JNum(0)
         ELSE JNaN
    [] OTHER        -> JNaN

\* pixels * v
Times(px, v) == IF ToNumber(v).t = "num" THEN JNum(px * ToNumber(v).n) ELSE JNaN

DefaultSizePt == 14

\* (parseFloat(fontSize.value) || 14) / 600 * height, kept as a fraction.
EffectiveSize(size, height) ==
  [num |-> OrValue(parseFloat(size), JNum(DefaultSizePt * 100)).n * height,
   den |-> 100 * SizeReference]

\* A render that draws the settings as they were when the run was invoked.
CardFromSnapshot(r) ==
  [src           |-> r.imageEle,
   width         |-> imageSize.width,
   height        |-> imageSize.height,
   lx            |-> Times(imageSize.width, Index(r.snap.coordinates, 1)),
   ly            |-> Times(imageSize.height, Index(r.snap.coordinates, 2)),
   italic        |-> r.snap.isItalic # <<>>,
   bold          |-> r.snap.isBold # <<>>,
   effectiveSize |-> EffectiveSize(r.snap.fontSize, imageSize.height),
   family        |-> r.snap.fontFamily,
   fillStyle     |-> r.snap.fontColor,
   text          |-> r.snap.name]

\* A render that draws the image selected now instead of the one its run loaded.
CardOfLatestImage(r) ==
  [src           |-> rawImageDataURL,
   width         |-> imageSize.width,
   height        |-> imageSize.height,
   lx            |-> Times(imageSize.width, Index(coordinates, 1)),
   ly            |-> Times(imageSize.height, Index(coordinates, 2)),
   italic        |-> isItalic # <<>>,
   bold          |-> isBold # <<>>,
   effectiveSize |-> EffectiveSize(fontSize, imageSize.height),
   family        |-> fontFamily,
   fillStyle     |-> fontColor,
   text          |-> name]

\* What lines 88-104 draw, from the run's image and the refs as they are now.
Card(r) ==
  [src           |-> r.imageEle,
   width         |-> imageSize.width,
   height        |-> imageSize.height,
   lx            |-> Times(imageSize.width, Index(coordinates, 1)),
   ly            |-> Times(imageSize.height, Index(coordinates, 2)),
   italic        |-> isItalic # <<>>,
   bold          |-> isBold # <<>>,
   effectiveSize |-> EffectiveSize(fontSize, imageSize.height),
   family        |-> fontFamily,
   fillStyle     |-> fontColor,
   text          |-> name]

RemoveAt(s, i) == SubSeq(s, 1, i - 1) \o SubSeq(s, i + 1, Len(s))

\* The run resumes after its tick and draws (lines 88-104).
Draw(i) ==
  /\ phase = "ready"
  /\ renders[i].pc = "tick"
  /\ imageDataURL' = Card(renders[i])
  /\ renders' = RemoveAt(renders, i)
  /\ obs' = [obs EXCEPT !.pubFresh = renders[i].fresh, !.pubSnap = renders[i].snap]
  /\ UNCHANGED <<phase, url, settingVars, fontVars, imageSize, rawImageDataURL,
                 timerVars, boundVars>>

\* typeof v === 'string' ? v : JSON.stringify(v), lines 121-125, for coordinates.
CoordinatesParam(c) == JSONStringify(c)

\* Lines 108-128: the href after the settings s are set into the
\* searchParams p0, in the order of settingsToSave (currentUrl.toString()).
SavedQuery(p0, s) ==
  LET p1 == SearchSet(p0, K_fontFamily, s.fontFamily)
      p2 == SearchSet(p1, K_isBold, s.isBold)
      p3 == SearchSet(p2, K_isItalic, s.isItalic)
      p4 == SearchSet(p3, K_fontLoadingCode, s.fontLoadingCode)
      p5 == SearchSet(p4, K_fontSize, s.fontSize)
      p6 == SearchSet(p5, K_fontColor, s.fontColor)
      p7 == SearchSet(p6, K_name, s.name)
      p8 == SearchSet(p7, K_coordinates, CoordinatesParam(s.coordinates))
  IN  SerializeQuery(p8)

\* A persist function that writes the default back into an empty fontFamily.
FireSaveNormalizing ==
  /\ phase = "ready"
  /\ Due(saveTimer)
  /\ saveTimer' = TimerIdle
  /\ fontFamily' = OrString(Some(fontFamily), DefaultFontFamily)
  /\ url' = ParseQuery(SavedQuery(url, [Settings EXCEPT !.fontFamily = fontFamily']))
  /\ obs' = [obs EXCEPT !.saveRuns = Min(@ + 1, 2)]
  /\ UNCHANGED <<phase, name, fontLoadingCode, isItalic, isBold, fontColor, fontSize,
                 coordinates, fontVars, renderVars, genTimer, boundVars>>

\* saveSettings' timer fires: history.replaceState with the settings as they
\* are now; the location then holds what the written href parses to.
FireSave ==
  /\ phase = "ready"
  /\ Due(saveTimer)
  /\ saveTimer' = TimerIdle
  /\ url' = ParseQuery(SavedQuery(url, Settings))
  /\ obs' = [obs EXCEPT !.saveRuns = Min(@ + 1, 2)]
  /\ UNCHANGED <<phase, settingVars, fontVars, renderVars, genTimer, boundVars>>

(***************************************************************************)
(* The polling loop after its wait (lines 165-179), fonts, and time        *)
(***************************************************************************)
\* The loop goes round: one more poll, one more wait.
PollAgain(p) ==
  /\ phase = "ready"
  /\ p \in pollers
  /\ p.wake = 0
  /\ p.livesRemaining > 0
  /\ pollers' = (pollers \ {p}) \cup {Sleep(PollBody(p, Cardinality(documentFonts)))}
  /\ UNCHANGED <<phase, url, settingVars, availableFontFaces, errors, loadedFonts,
                 headLinks, documentFonts, renderVars, timerVars, boundVars, obs>>

\* The loop ends and the families are published (lines 177-179).
PollDone(p) ==
  /\ phase = "ready"
  /\ p \in pollers
  /\ p.wake = 0
  /\ p.livesRemaining <= 0
  /\ pollers' = pollers \ {p}
  /\ availableFontFaces' = SortUniq({f.family : f \in documentFonts})
  /\ UNCHANGED <<phase, url, settingVars, errors, loadedFonts, headLinks, documentFonts,
                 renderVars, timerVars, boundVars, obs>>

\* The browser adds a face declared by an injected stylesheet to document.fonts.
FontFaceAdded(f) ==
  /\ phase = "ready"
  /\ fontEvents < MaxFontFaces
  /\ \E h \in Range(headLinks) : f \in FacesOf(h)
  /\ f \notin documentFonts
  /\ documentFonts' = documentFonts \cup {f}
  /\ fontEvents' = fontEvents + 1
  /\ UNCHANGED <<phase, url, settingVars, availableFontFaces, errors, loadedFonts,
                 headLinks, pollers, renderVars, timerVars, edits, reloads, obs>>

\* document.fonts fires 'loadingdone' (line 186): the render function is called.
LoadingDone ==
  /\ phase = "ready"
  /\ edits < MaxEdits
  /\ documentFonts # {}
  /\ edits' = edits + 1
  /\ genTimer' = Debounced(genTimer)
  /\ obs' = [obs EXCEPT !.extra = TRUE]
  /\ UNCHANGED <<phase, url, settingVars, fontVars, renderVars, saveTimer, fontEvents,
                 reloads>>

TickTimer(t) == IF t.armed THEN [t EXCEPT !.left = @ - 1] ELSE t

\* One poll interval passes.  Whatever is due now (a timer at zero, a loop whose
\* wait is over, a run's zero-delay tick) runs before more time passes.
Tick ==
  /\ phase = "ready"
  /\ ~Due(genTimer) /\ ~Due(saveTimer)
  /\ \A p \in pollers : p.wake > 0
  /\ \A i \in DOMAIN renders : renders[i].pc # "tick"
  /\ genTimer' = TickTimer(genTimer)
  /\ saveTimer' = TickTimer(saveTimer)
  /\ pollers' = { [p EXCEPT !.wake = @ - 1, !.since = @ + 1] : p \in pollers }
  /\ obs' = [obs EXCEPT !.quiet = Min(@ + 1, Wait), !.quietAll = Min(@ + 1, Wait)]
  /\ UNCHANGED <<phase, url, settingVars, availableFontFaces, errors, loadedFonts,
                 headLinks, documentFonts, renderVars, boundVars>>

Next ==
  \/ Startup
  \/ Reload
  \/ \E v \in NameInputs : SetName(v)
  \/ \E v \in {<<>>, FamilyLato, FamilyRoboto} : SetFontFamily(v)
  \/ SetBold
  \/ SetItalic
  \/ \E v \in FontSizeInputs : SetFontSize(v)
  \/ \E v \in FontColorInputs : SetFontColor(v)
  \/ \E c \in ClickOffsets : handleUpdatePosition(c)
  \/ \E file \in Files : updatePreview(file)
  \/ \E v \in CodeInputs : InputFontLoadingCode(v)
  \/ ChangeFontLoadingCode
  \/ FireGenerate
  \/ \E i \in DOMAIN renders : ImageLoad(i)
  \/ \E i \in DOMAIN renders : Draw(i)
  \/ FireSave
  \/ \E p \in pollers : PollAgain(p)
  \/ \E p \in pollers : PollDone(p)
  \/ \E f \in UNION { FacesOf(h) : h \in Range(headLinks) } : FontFaceAdded(f)
  \/ LoadingDone
  \/ Tick

Spec == Init /\ [][Next]_vars

(***************************************************************************)
(* Properties                                                              *)
(***************************************************************************)
\* The page address holds v under key k.
AddressHas(k, v) == SearchGet(url, k) = Some(v)

\* The address holds the current value of every watched setting that is saved.
WatchedSaved ==
  /\ AddressHas(K_fontFamily, fontFamily)
  /\ AddressHas(K_isBold, isBold)
  /\ AddressHas(K_isItalic, isItalic)
  /\ AddressHas(K_fontSize, fontSize)
  /\ AddressHas(K_fontColor, fontColor)
  /\ AddressHas(K_name, name)
  /\ AddressHas(K_coordinates, JSONStringify(coordinates))

\* The card c was drawn from the settings s and the source image src.
CardShows(c, s, src) ==
  /\ c.src = src
  /\ c.text = s.name
  /\ c.family = s.fontFamily
  /\ c.fillStyle = s.fontColor
  /\ c.italic = (s.isItalic # <<>>)
  /\ c.bold = (s.isBold # <<>>)
  /\ c.lx = Times(c.width, Index(s.coordinates, 1))
  /\ c.ly = Times(c.height, Index(s.coordinates, 2))
  /\ c.effectiveSize = EffectiveSize(s.fontSize, c.height)

\* C1: debounce coalescing.  After a burst of changes of watched settings, each
\* less than the quiet period after the one before, the persist function runs
\* exactly once, a full quiet period after the last change, and leaves the
\* last values in the address; the render function runs exactly once, at the
\* same moment (unless something else also called it), and the card a run
\* invoked after the last change draws shows the last values.
C1_DebounceCoalescing ==
  phase = "ready" =>
    /\ saveTimer.armed =>
         /\ obs.burstLen >= 1
         /\ obs.saveRuns = 0
         /\ saveTimer.left = Wait - obs.quiet
    /\ (~saveTimer.armed /\ obs.burstLen >= 1) =>
         /\ obs.saveRuns = 1
         /\ obs.quiet = Wait
         /\ WatchedSaved
    /\ (genTimer.armed /\ obs.burstLen >= 1 /\ ~obs.extra) =>
         /\ obs.genRuns = 0
         /\ genTimer.left = Wait - obs.quiet
    /\ (~genTimer.armed /\ obs.burstLen >= 1) =>
         /\ obs.genRuns >= 1
         /\ ~obs.extra => (obs.genRuns = 1 /\ obs.quiet = Wait)
    /\ obs.pubFresh => CardShows(imageDataURL, Settings, rawImageDataURL)

\* Two or more changes came within one quiet period; both functions have run
\* once since, and the card of that run is shown.
C1_Witness ==
  /\ obs.burstLen >= 2
  /\ ~saveTimer.armed /\ ~genTimer.armed /\ ~obs.extra
  /\ obs.saveRuns = 1 /\ obs.genRuns = 1
  /\ obs.pubFresh

\* The stylesheet URL the handler finds in the current font loading code.
CurrentHref == MatchLinkHref(fontLoadingCode, 1)

\* A poller in its countdown: the poll that last saw a new size was
\* (LIVES - livesRemaining) intervals before its last poll.
PollClock(p) == p.since = (LIVES - p.livesRemaining) + (1 - p.wake)

\* C2 (as amended): the last poll of the loop is exactly LIVES intervals after the
\* poll that saw the last change of size; the loop then waits one more interval,
\* so it ends LIVES + 1 intervals after that poll, and the families are published
\* then and at no other moment.
C2_PollingStops ==
  [][ /\ \A p \in pollers' : PollClock(p) /\ p.since <= LIVES + 1
      /\ (availableFontFaces' # availableFontFaces /\ reloads' = reloads) =>
           \E p \in pollers :
             /\ p.livesRemaining = 0 /\ p.wake = 0 /\ p.since = LIVES + 1
             /\ p \notin pollers' ]_vars

\* A loop that saw the font set grow is about to end.
C2_Witness ==
  \E p \in pollers :
    p.lastSize > 0 /\ p.livesRemaining = 0 /\ p.wake = 0 /\ p.since = LIVES + 1

\* C2 as claimed: the loop ends exactly LIVES intervals after the poll that
\* saw the last change of size.
C2_StopsAfterLives ==
  \A p \in pollers : (p.livesRemaining = 0 /\ p.wake = 0) => p.since = LIVES

NoDuplicates(seq) == \A i, j \in DOMAIN seq : seq[i] = seq[j] => i = j

\* C3: a stylesheet URL is linked into the document at most once, each linked
\* URL has at most one polling loop, and a call of the handler on a URL that
\* was already requested appends no link, starts no loop and leaves the
\* published families as they are.
C3_InjectionIdempotent ==
  [][ /\ NoDuplicates(headLinks')
      /\ Range(headLinks') = loadedFonts'
      /\ \A p, q \in pollers' : p.url = q.url => p = q
      /\ (ChangeFontLoadingCode /\ CurrentHref.some /\ CurrentHref.s \in loadedFonts) =>
           /\ headLinks' = headLinks
           /\ loadedFonts' = loadedFonts
           /\ pollers' = pollers
           /\ availableFontFaces' = availableFontFaces ]_vars

\* The handler was called again on a requested URL while its loop was running.
C3_Witness ==
  /\ obs.handled = "repeat"
  /\ \E p \in pollers : p.url = CurrentHref.s /\ p.since > 0

\* Startup parsing applied to the address saveSettings writes from the settings now.
Reloaded == LoadedSettings(ParseQuery(SavedQuery(url, Settings)))

\* C4 as claimed: writing the settings to the address with saveSettings and
\* running the startup parsing on that address gives every field back.
C4_RoundTrip ==
  phase = "ready" =>
    /\ ~Reloaded.thrown
    /\ Reloaded.name = name
    /\ Reloaded.fontFamily = fontFamily
    /\ Reloaded.isItalic = isItalic
    /\ Reloaded.isBold = isBold
    /\ Reloaded.fontColor = fontColor
    /\ Reloaded.fontSize = fontSize
    /\ Reloaded.fontLoadingCode = fontLoadingCode
    /\ Reloaded.coordinates = coordinates

\* C5 as claimed: once an edit of a persisted setting is followed by a full
\* quiet period, the address holds the current value of every persisted setting.
C5_SettledEditPersisted ==
  (phase = "ready" /\ obs.edited /\ obs.quietAll = Wait /\ ~saveTimer.armed) =>
    (WatchedSaved /\ AddressHas(K_fontLoadingCode, fontLoadingCode))

\* The address has a coordinates parameter that is not JSON.
MalformedCoordinates ==
  LET v == SearchGet(url, K_coordinates)
  IN  v.some /\ v.s # <<>> /\ ~JSONParse(v.s).ok

\* C6 as claimed: with a malformed coordinates parameter in the address,
\* startup completes and coordinates gets its default.
C6_MalformedIgnored ==
  (phase # "boot" /\ ~obs.edited /\ MalformedCoordinates) =>
    (phase = "ready" /\ coordinates = DefaultCoordinates)

NoHref(code) ==
  LET u == MatchLinkHref(code, 1)
  IN  ~u.some \/ u.s = <<>>

\* C8: a call of the handler on code in which no stylesheet URL is found, from
\* the textarea or at startup, sets the error message, appends no link,
\* requests no URL, starts no loop and leaves the published families alone.
C8_MissingUrlContained ==
  [][ /\ (ChangeFontLoadingCode /\ NoHref(fontLoadingCode)) =>
           /\ errors'.fontLoadingCode = FontLoadingCodeError
           /\ headLinks' = headLinks
           /\ loadedFonts' = loadedFonts
           /\ pollers' = pollers
           /\ availableFontFaces' = availableFontFaces
      /\ ( /\ phase = "boot" \/ reloads' # reloads
           /\ phase' = "ready"
           /\ fontLoadingCode' # <<>>
           /\ NoHref(fontLoadingCode') ) =>
           /\ errors'.fontLoadingCode = FontLoadingCodeError
           /\ headLinks' = <<>>
           /\ loadedFonts' = {}
           /\ pollers' = {}
           /\ availableFontFaces' = <<>> ]_vars

\* The last call of the handler found no URL and the message is shown.
C8_Witness ==
  /\ obs.handled = "error"
  /\ NoHref(fontLoadingCode)
  /\ errors.fontLoadingCode = FontLoadingCodeError
  /\ headLinks = <<>>

\* The setting cur was seeded from parameter k: its value when present, else dflt.
Seeded(k, cur, dflt) ==
  LET v == SearchGet(url, k)
  IN  IF v.some THEN cur = v.s ELSE cur = dflt

\* C9 as claimed: after startup each of name, fontFamily, fontColor and
\* fontSize is its parameter's value verbatim when the parameter is present and
\* its default when absent; coordinates is the parameter's JSON value or its default.
C9_StartupDefaults ==
  (phase = "ready" /\ ~obs.edited) =>
    /\ Seeded(K_name, name, DefaultName)
    /\ Seeded(K_fontFamily, fontFamily, DefaultFontFamily)
    /\ Seeded(K_fontColor, fontColor, DefaultFontColor)
    /\ Seeded(K_fontSize, fontSize, DefaultFontSize)
    /\ LET v == SearchGet(url, K_coordinates)
       IN  IF v.some THEN JSONParse(v.s).ok => coordinates = JSONParse(v.s).v
           ELSE coordinates = DefaultCoordinates

\* c is a pair of numbers, both in [0,1].
InUnitSquare(c) ==
  /\ c.t = "arr" /\ Len(c.items) = 2
  /\ \A k \in 1..2 : c.items[k].t = "num" /\ c.items[k].n >= 0 /\ c.items[k].n <= 100

\* C10 as claimed: a run draws the name at (fx * w, fy * h), w and h being the
\* natural size of the image the run drew.
C10_TextAnchor ==
  [][ \A i \in DOMAIN renders :
        (Draw(i) /\ InUnitSquare(coordinates)) =>
          /\ imageDataURL'.lx =
               Times(NaturalSize(renders[i].imageEle).width, Index(coordinates, 1))
          /\ imageDataURL'.ly =
               Times(NaturalSize(renders[i].imageEle).height, Index(coordinates, 2)) ]_vars

(***************************************************************************)
(* The render function on its inputs: one run of generateInvitationCard    *)
(* (lines 71-105) from the moment its timer fired, for a range of font     *)
(* sizes, positions and images.                                            *)
(***************************************************************************)
\* Texts of the font size field (line 229).
SizeInputs ==
  { <<"3","0">>, <<"1","4">>, <<"a","b","c">>, <<"0">>, <<>>, <<"1",".","5">>,
    <<"3","0","p","x">>, <<"-","5">> }

\* Positions a click can give (line 191).
PositionInputs == { Pair(50, 10), Pair(0, 100), Pair(25, 10) }

RenderInit ==
  /\ phase = "ready"
  /\ url = <<>>
  /\ name = DefaultName /\ fontLoadingCode = <<>> /\ fontFamily = DefaultFontFamily
  /\ isItalic = <<>> /\ isBold = <<>> /\ fontColor = DefaultFontColor
  /\ fontSize \in SizeInputs
  /\ coordinates \in PositionInputs
  /\ imageSize = [width |-> 500, height |-> 500]
  /\ rawImageDataURL \in Files
  /\ imageDataURL = NoCard
  /\ availableFontFaces = <<>> /\ errors = [fontLoadingCode |-> ""]
  /\ loadedFonts = {} /\ headLinks = <<>> /\ documentFonts = {}
  /\ genTimer = TimerIdle /\ saveTimer = TimerIdle
  /\ renders = << [imageEle |-> rawImageDataURL, pc |-> "load", fresh |-> TRUE,
                   snap |-> Settings] >>
  /\ pollers = {}
  /\ edits = MaxEdits /\ fontEvents = MaxFontFaces /\ reloads = MaxReloads
  /\ obs = [ObsInit EXCEPT !.edited = TRUE, !.genRuns = 1, !.saveRuns = 1, !.burstLen = 1]

RenderNext ==
  \/ \E i \in DOMAIN renders : ImageLoad(i)
  \/ \E i \in DOMAIN renders : Draw(i)

RenderSpec == RenderInit /\ [][RenderNext]_vars

\* s / 600 * h, s being the number the text is when it parses as one, else 14.
SizeClaimed(size, h) ==
  [num |-> (IF parseFloat(size).t = "num" THEN parseFloat(size).n
            ELSE DefaultSizePt * 100) * h,
   den |-> 100 * SizeReference]

\* C11 as claimed: a run draws with the effective size s / 600 * h, where h is
\* the image height it uses and s is the number fontSize parses to, and 14
\* exactly when fontSize does not parse as a number.
C11_EffectiveSize ==
  [][ \A i \in DOMAIN renders :
        Draw(i) => imageDataURL'.effectiveSize = SizeClaimed(fontSize, imageSize.height) ]_vars

\* The step is the setup of a page that comes up.
IsSetup == (phase = "boot" \/ reloads' # reloads) /\ phase' = "ready"

\* C12: when the page comes up with no font loading code (the parameter absent
\* or empty), the setup appends no link, requests no URL, starts no loop and
\* sets no message; after the setup only the textarea's change event does any
\* of these.
C12_NoDetectionAtStartup ==
  [][ /\ (IsSetup /\ fontLoadingCode' = <<>>) =>
           /\ headLinks' = <<>>
           /\ loadedFonts' = {}
           /\ pollers' = {}
           /\ errors'.fontLoadingCode = ""
      /\ ( /\ phase = "ready" /\ reloads' = reloads
           /\ \/ headLinks' # headLinks
              \/ loadedFonts' # loadedFonts
              \/ errors' # errors
              \/ \E q \in pollers' : \A p \in pollers : p.url # q.url ) =>
           ChangeFontLoadingCode ]_vars

\* The page was reloaded on an address whose fontLoadingCode is empty, and
\* nothing was detected.
C12_Witness ==
  /\ phase = "ready" /\ reloads = 1
  /\ SearchGet(url, K_fontLoadingCode) = Some(<<>>)
  /\ fontLoadingCode = <<>>
  /\ obs.handled = "none"
  /\ headLinks = <<>> /\ pollers = {} /\ errors.fontLoadingCode = ""

\* C13: the countdown of a polling loop is LIVES after its first poll; a poll
\* that sees the size it saw last takes exactly one off, a poll that sees
\* another size sets it back to LIVES and records that size; the countdown
\* stays within 0..LIVES, and the families are published only by a loop whose
\* countdown is 0.
C13_CountdownRule ==
  [][ /\ \A q \in pollers' :
           /\ q.livesRemaining \in 0..LIVES
           /\ (\A p \in pollers : p.url # q.url) =>
                (q.livesRemaining = LIVES /\ q.lastSize = Cardinality(documentFonts'))
      /\ \A p \in pollers :
           (p.wake = 0 /\ p.livesRemaining > 0 /\ p \notin pollers' /\ reloads' = reloads) =>
             \E q \in pollers' :
               /\ q.url = p.url
               /\ IF Cardinality(documentFonts) = p.lastSize
                  THEN q.livesRemaining = p.livesRemaining - 1 /\ q.lastSize = p.lastSize
                  ELSE q.livesRemaining = LIVES /\ q.lastSize = Cardinality(documentFonts)
      /\ (availableFontFaces' # availableFontFaces /\ reloads' = reloads) =>
           \E p \in pollers : p \notin pollers' /\ p.livesRemaining = 0 ]_vars

\* A loop saw the font set grow, started its countdown again and has counted
\* part of it down.
C13_Witness ==
  \E p \in pollers : p.lastSize = 1 /\ p.livesRemaining = 2 /\ p.wake = 1

\* C14: the card shown is always the one the last run to complete drew, with
\* the image that run loaded: every run that completes replaces the card,
\* whether or not a run started after it has already published, and nothing
\* else replaces it.
C14_LastToCompleteShown ==
  [][ /\ \A i \in DOMAIN renders :
           Draw(i) => (imageDataURL' # NoCard /\ imageDataURL'.src = renders[i].imageEle)
      /\ (imageDataURL' # imageDataURL /\ reloads' = reloads) =>
           \E i \in DOMAIN renders : Draw(i) ]_vars

\* The run started after the last change has published and no run is pending,
\* yet the card shown is one a run started before that change drew afterwards,
\* from the image selected before.
C14_Witness ==
  /\ rawImageDataURL # ""
  /\ renders = <<>> /\ ~genTimer.armed
  /\ obs.genRuns >= 1
  /\ imageDataURL # NoCard
  /\ ~obs.pubFresh
  /\ imageDataURL.src # rawImageDataURL

\* C15: a run of the render function (its start, its image's load, its draw)
\* leaves every setting, the address, the selected image, the font state and
\* the persist timer as they are: it writes only the canvas, whose size is
\* imageSize, and the output image.  A run of the persist function leaves
\* everything but the address as it is.
C15_DisjointOutputs ==
  [][ /\ ( \/ FireGenerate
           \/ \E i \in DOMAIN renders : ImageLoad(i)
           \/ \E i \in DOMAIN renders : Draw(i) ) =>
           UNCHANGED <<settingVars, url, rawImageDataURL, fontVars, saveTimer>>
      /\ FireSave =>
           UNCHANGED <<settingVars, imageSize, rawImageDataURL, imageDataURL, renders,
                       fontVars, genTimer>> ]_vars

\* Both functions have run since the last change: the address holds the
\* settings and a card is shown, with an empty font family selected.
C15_Witness ==
  /\ obs.saveRuns = 1 /\ obs.genRuns = 1
  /\ WatchedSaved
  /\ imageDataURL # NoCard
  /\ fontFamily = <<>>

HrefToken == <<"h","r","e","f","=","\"">>

\* Index of the first place at or after i where t stands in s, or 0.
RECURSIVE FindSub(_, _, _)
FindSub(s, t, i) ==
  IF i + Len(t) - 1 > Len(s) THEN 0
  ELSE IF SubSeq(s, i, i + Len(t) - 1) = t THEN i
  ELSE FindSub(s, t, i + 1)

\* The value of the first href attribute of the markup: the text between its
\* opening quote and the next quote.
FirstHref(code) ==
  LET k    == FindSub(code, HrefToken, 1)
      from == k + Len(HrefToken)
      q    == IF k = 0 THEN 0 ELSE IndexOf(code, "\"", from)
  IN  IF k = 0 \/ q = 0 THEN None ELSE Some(SubSeq(code, from, q - 1))

\* C16 as claimed: when the markup has an href attribute, the URL the handler
\* requests and caches is the value of the first one, whatever stands around it.
C16_FirstHrefRequested ==
  [][ /\ ( /\ ChangeFontLoadingCode
           /\ FirstHref(fontLoadingCode).some
           /\ FirstHref(fontLoadingCode).s # <<>>
           /\ FirstHref(fontLoadingCode).s \notin loadedFonts ) =>
           /\ loadedFonts' = loadedFonts \cup {FirstHref(fontLoadingCode).s}
           /\ headLinks' = Append(headLinks, FirstHref(fontLoadingCode).s)
      /\ ( /\ IsSetup
           /\ FirstHref(fontLoadingCode').some
           /\ FirstHref(fontLoadingCode').s # <<>> ) =>
           /\ loadedFonts' = {FirstHref(fontLoadingCode').s}
           /\ headLinks' = <<FirstHref(fontLoadingCode').s>> ]_vars

\* C17 as claimed: once the page is up, coordinates is a pair of numbers that
\* are both in [0,1], whatever the address was and whatever was clicked.
C17_PositionInUnitSquare == phase = "ready" => InUnitSquare(coordinates)

\* C18 as claimed: the width and height a run draws with are the natural
\* width and height of the image that run loaded.
C18_OwnDimensions ==
  [][ \A i \in DOMAIN renders :
        Draw(i) =>
          /\ imageDataURL'.width = NaturalSize(renders[i].imageEle).width
          /\ imageDataURL'.height = NaturalSize(renders[i].imageEle).height ]_vars

\* C19: once the handler has set the font loading message, no later step of
\* the page changes it, a later call of the handler on markup with a URL included.
C19_ErrorSticky ==
  [][ (errors.fontLoadingCode # "" /\ reloads' = reloads) =>
        errors'.fontLoadingCode = errors.fontLoadingCode ]_vars

\* The message is still shown after a later call of the handler found a URL,
\* linked it, and its loop published the families.
C19_Witness ==
  /\ errors.fontLoadingCode = FontLoadingCodeError
  /\ obs.handled \in {"new", "repeat"}
  /\ headLinks # <<>>
  /\ availableFontFaces # <<>>

\* C20: a card is shown only when a source image is selected, and it is drawn
\* from a source image; a run started with no source image publishes nothing.
C20_CardNeedsImage ==
  /\ imageDataURL # NoCard => (rawImageDataURL # "" /\ imageDataURL.src # "")
  /\ \A i \in DOMAIN renders : renders[i].imageEle # ""

\* The render function ran with no source image selected, a full quiet
\* period has passed since, and no card is shown.
C20_Witness ==
  /\ phase = "ready"
  /\ rawImageDataURL = ""
  /\ obs.genRuns >= 1 /\ ~genTimer.armed
  /\ obs.quiet = Wait
  /\ imageDataURL = NoCard
====
